---- MODULE Spec2Model ----
(***************************************************************************)
(* Model of the model-resource manager of ai-articulation-therapy          *)
(* (src/llama_model.py), of load_model and the stage functions             *)
(* (src/process_text.py) and of process_inputs (src/app.py).               *)
(*                                                                         *)
(* LlamaModelManager keeps four CLASS attributes (_instance, _lock,        *)
(* _model, _model_path).  __init__ assigns self._model and                 *)
(* self._model_path, which creates INSTANCE attributes that shadow the     *)
(* class attributes; cleanup is a classmethod and reads and writes the     *)
(* class attributes only.  The heap below keeps the two levels apart and   *)
(* attribute reads follow Python's lookup order (instance, then class).    *)
(***************************************************************************)
EXTENDS Naturals, Integers, Sequences, FiniteSets, TLC

\* ------------------------------------------------------------------ bounds
NThreads == 2
NPaths == 2

Threads == 1..NThreads
Paths == 1..NPaths

\* model_paths of process_inputs always has four entries (src/app.py:208-213)
NModelPaths == 4

\* ------------------------------------------------------------ value domain
\* A manager object is named by a positive number; 0 is Python's None.
\* A thread pins at most its models list, its self and cls._instance.
ObjIds == 1..(NThreads * (NModelPaths + 1) + 1)
NoObj == 0

\* Attribute values.  A path is a positive number and a loaded Llama is named
\* by the path it was loaded from; None is Python's None; Unset marks an
\* instance attribute that was never assigned (the read falls to the class).
None == 0
Unset == -1
Gone == -2
Absent == [model |-> Gone, path |-> Gone]
Fresh == [model |-> Unset, path |-> Unset]

VARIABLES
    lock,            \* LlamaModelManager._lock: 0 free, else the holding thread
    cls_instance,    \* LlamaModelManager._instance (class attribute)
    cls_model,       \* LlamaModelManager._model (class attribute)
    cls_model_path,  \* LlamaModelManager._model_path (class attribute)
    heap,            \* instance attributes of every referenced manager object
    pc,              \* per thread: the statement it is at
    self,            \* per thread: the object of the running method
    models,          \* per thread: the handles the caller holds
    ctx,             \* per thread: the running call (top, arg, try, counters)
    run,             \* the locals of process_inputs or of a stage function
                     \* called directly, and per-run probes
    cleaned          \* a cleanup() completed and no __init__ ran since

vars == <<lock, cls_instance, cls_model, cls_model_path, heap, pc, self,
          models, ctx, run, cleaned>>

mgr == <<lock, cls_instance, cls_model, cls_model_path, heap>>

\* ------------------------------------------------------- attribute lookup
\* self._model: the instance attribute when set, else the class attribute.
Attr_model(o) == IF heap[o].model = Unset THEN cls_model ELSE heap[o].model

\* self._model_path: the instance attribute when set, else the class one.
Attr_model_path(o) == IF heap[o].path = Unset THEN cls_model_path ELSE heap[o].path

IsModel(v) == v \in Paths

Range(s) == {s[i] : i \in DOMAIN s}

\* Objects some reference still reaches (CPython frees the others at once):
\* the class's instance, the self of a running method, the handles a caller
\* holds, and the instance whose __init__ raised the exception a handler of
\* load_model holds (its traceback keeps the frame of __init__ and its self).
Roots == ({cls_instance} \cup {self[t] : t \in Threads}
          \cup {ctx[t].exc : t \in Threads}
          \cup UNION {Range(models[t]) : t \in Threads}) \ {NoObj}

\* Reference counting: an object nobody references is freed with its model.
Sweep(h) == [o \in ObjIds |-> IF o \in Roots' THEN h[o] ELSE Absent]

\* The id a newly allocated object gets.
NewObj == CHOOSE o \in ObjIds : heap[o] = Absent /\ \A q \in ObjIds : heap[q] = Absent => o <= q

\* ------------------------------------------------------------ Python values
\* A value of the running program is the pair of its type and its content.
\* A str is held as a string, a list as a sequence of values and a dict as
\* the sequence of its <<key, value>> items in insertion order.
PyNone == <<"null", 0>>
Num(n) == <<"num", n>>
Str(s) == <<"str", s>>
List(s) == <<"list", s>>
Obj(items) == <<"obj", items>>

Kind(x) == x[1]
Val(x) == x[2]

\* The outcome of an evaluation that raised an exception.
Raised == <<"raise", 0>>

\* bool(x), as "if x", "not x" and "x or d" read it
Truthy(x) ==
    CASE Kind(x) = "null" -> FALSE
      [] Kind(x) = "num" -> Val(x) # 0
      [] Kind(x) = "str" -> Val(x) # ""
      [] Kind(x) = "list" -> Val(x) # <<>>
      [] Kind(x) = "obj" -> Val(x) # <<>>

\* x[key] evaluates: x is a dict that has the key.  On any other value the
\* subscript raises (KeyError on a dict, TypeError elsewhere).
HasKey(x, key) == Kind(x) = "obj" /\ \E i \in DOMAIN Val(x) : Val(x)[i][1] = key

\* x[key] of a dict that has the key (json.loads keeps the last duplicate)
Get(x, key) ==
    LET i == CHOOSE n \in DOMAIN Val(x) :
                /\ Val(x)[n][1] = key
                /\ \A j \in DOMAIN Val(x) : Val(x)[j][1] = key => j <= n
    IN Val(x)[i][2]

\* x.get(key, d) of a dict
GetOr(x, key, d) == IF HasKey(x, key) THEN Get(x, key) ELSE d

\* str(x) inside an f-string, for the values a form field holds
PyStr(x) ==
    CASE Kind(x) = "str" -> Val(x)
      [] Kind(x) = "null" -> "None"

Min(S) == CHOOSE x \in S : \A y \in S : x <= y
Max(S) == CHOOSE x \in S : \A y \in S : y <= x

IdleCtx == [top |-> "none", arg |-> 0, try |-> 0, loads |-> 0, cleanups |-> 0,
            failed |-> 0, exc |-> NoObj, gen |-> 0]

NoRun == [paths |-> <<>>, loads |-> 0, loaded |-> 0, startLive |-> None,
          raw |-> <<>>, transcribed_text |-> "",
          original_ipas |-> <<>>, transcribed_ipas |-> <<>>,
          k |-> 0, attempt |-> 0, response |-> <<>>,
          calls |-> 0, text |-> "", ipa |-> PyNone,
          evaluation |-> PyNone,
          best_original_ipa |-> PyNone, best_transcribed_ipa |-> PyNone,
          errors |-> PyNone,
          soda_analyses |-> <<>>,
          soda_evaluation |-> PyNone,
          soda_analysis |-> PyNone,
          profile |-> PyNone,
          soda_summary |-> PyNone]

Init ==
    /\ lock = 0
    /\ cls_instance = NoObj
    /\ cls_model = None
    /\ cls_model_path = None
    /\ heap = [o \in ObjIds |-> Absent]
    /\ pc = [t \in Threads |-> "idle"]
    /\ self = [t \in Threads |-> NoObj]
    /\ models = [t \in Threads |-> <<>>]
    /\ ctx = [t \in Threads |-> IdleCtx]
    /\ run = NoRun
    /\ cleaned = FALSE

\* ----------------------------------------------------- returning to callers
\* A top-level call of thread t ends, by a return or by an exception nobody
\* catches: its locals go out of scope and ms is what the caller keeps.
Done(t, ms) ==
    /\ pc' = [pc EXCEPT ![t] = "idle"]
    /\ self' = [self EXCEPT ![t] = NoObj]
    /\ models' = [models EXCEPT ![t] = ms]
    /\ ctx' = [ctx EXCEPT ![t] = IdleCtx]

\* load_model returns h (lines 30, 38, 41; NoObj is None) to its caller:
\* a direct caller keeps it, process_inputs appends it to models (line 19).
\* The exception its handler held is dropped with the handler.
LoadModelReturns(t, h) ==
    IF ctx[t].top = "load_model"
    THEN Done(t, <<h>>)
    ELSE /\ pc' = [pc EXCEPT ![t] = "run_load"]
         /\ self' = [self EXCEPT ![t] = NoObj]
         /\ models' = [models EXCEPT ![t] = Append(models[t], h)]
         /\ ctx' = [ctx EXCEPT ![t].exc = NoObj]

\* LlamaModelManager(path) evaluated to h (None when __new__ returned None).
ConstructReturns(t, h) ==
    IF ctx[t].top = "construct"
    THEN Done(t, <<h>>)
    ELSE LoadModelReturns(t, h)

\* Variant of load_model that answers the second ValueError as the first.
RetriesAgain(try) == try <= 2

\* load_model line 31-34: the first ValueError is answered by a cleanup and a
\* retry; line 39-41: the second one gives up.
RetriesAfterFailure(try) == try = 1

\* LlamaModelManager(path) raised ValueError (line 36).  In load_model the
\* handler's e (line 31) refers to the instance whose __init__ raised, until
\* load_model returns.
ConstructRaises(t) ==
    IF ctx[t].top = "construct"
    THEN Done(t, models[t])
    ELSE IF RetriesAfterFailure(ctx[t].try)
    THEN /\ pc' = [pc EXCEPT ![t] = "cleanup"]
         /\ self' = [self EXCEPT ![t] = NoObj]
         /\ ctx' = [ctx EXCEPT ![t].failed = @ + 1, ![t].exc = self[t]]
         /\ UNCHANGED models
    ELSE LoadModelReturns(t, NoObj)

\* ------------------------------------------------- LlamaModelManager.__new__
\* line 15: the singleton is created only when the class holds none.
CreatesInstance == cls_instance = NoObj

\* lines 14-16, atomic under the lock: create and register the instance.
New(t) ==
    /\ pc[t] = "new"
    /\ lock = 0
    /\ cls_instance' = IF CreatesInstance THEN NewObj ELSE cls_instance
    /\ pc' = [pc EXCEPT ![t] = "new_ret"]
    /\ UNCHANGED <<lock, cls_model, cls_model_path, self, models, ctx, run, cleaned>>
    /\ heap' = Sweep(IF CreatesInstance THEN [heap EXCEPT ![NewObj] = Fresh] ELSE heap)

\* line 17, outside the lock: return cls._instance.  When the class holds
\* None by now, the constructor call evaluates to None and __init__ is skipped.
NewReturn(t) ==
    /\ pc[t] = "new_ret"
    /\ IF cls_instance = NoObj
       THEN ConstructReturns(t, NoObj)
       ELSE /\ pc' = [pc EXCEPT ![t] = "init"]
            /\ self' = [self EXCEPT ![t] = cls_instance]
            /\ UNCHANGED <<models, ctx>>
    /\ UNCHANGED <<lock, cls_instance, cls_model, cls_model_path, cleaned, run>>
    /\ heap' = Sweep(heap)

\* ------------------------------------------------ LlamaModelManager.__init__
\* Variant of line 21 that compares the path recorded on the class.
NeedsLoadClassPath(o, p) == Attr_model(o) = None \/ cls_model_path # p

\* line 21: self._model is None or self._model_path != model_path
NeedsLoad(o, p) == Attr_model(o) = None \/ Attr_model_path(o) # p

\* lines 20-21: take the lock and decide; with nothing to load the
\* constructor returns self.  Otherwise Llama(...) starts (line 24) while
\* self._model still holds what it held.
InitEnter(t) ==
    /\ pc[t] = "init"
    /\ lock = 0
    /\ IF NeedsLoad(self[t], ctx[t].arg)
       THEN /\ lock' = t
            /\ pc' = [pc EXCEPT ![t] = "init_load"]
            /\ ctx' = [ctx EXCEPT ![t].loads = @ + 1]
            /\ run' = IF ctx[t].top = "run" THEN [run EXCEPT !.loads = @ + 1] ELSE run
            /\ UNCHANGED <<self, models>>
       ELSE /\ lock' = 0
            /\ ConstructReturns(t, self[t])
            /\ UNCHANGED run
    /\ cleaned' = FALSE
    /\ UNCHANGED <<cls_instance, cls_model, cls_model_path>>
    /\ heap' = Sweep(heap)

\* lines 24-33: Llama(...) returned; self._model and self._model_path are
\* assigned (the previous Llama loses its last reference here) and the lock
\* is released.
InitLoadOk(t) ==
    /\ pc[t] = "init_load"
    /\ lock' = 0
    /\ run' = IF ctx[t].top = "run" THEN [run EXCEPT !.loaded = @ + 1] ELSE run
    /\ ConstructReturns(t, self[t])
    /\ UNCHANGED <<cls_instance, cls_model, cls_model_path, cleaned>>
    /\ heap' = Sweep([heap EXCEPT ![self[t]] = [model |-> ctx[t].arg, path |-> ctx[t].arg]])

\* lines 34-36: Llama(...) raised; self._model = None, the lock is released
\* and ValueError propagates.  self._model_path keeps its value.
InitLoadFail(t) ==
    /\ pc[t] = "init_load"
    /\ lock' = 0
    /\ ConstructRaises(t)
    /\ UNCHANGED <<cls_instance, cls_model, cls_model_path, cleaned, run>>
    /\ heap' = Sweep([heap EXCEPT ![self[t]].model = None])

\* ------------------------------------------------- LlamaModelManager.cleanup
\* The class-level state cleanup works on.
ClassState == [instance |-> cls_instance, model |-> cls_model,
               model_path |-> cls_model_path, raised |-> FALSE]

\* Variant of cleanup without the guard of line 41: reset() is called on
\* whatever cls._model is, and on None the call raises.
CleanupEffectUnguarded(c) ==
    [instance |-> NoObj, model |-> None, model_path |-> None,
     raised |-> (c.model = None)]

\* Variant of cleanup without line 58: the class keeps its instance.
CleanupEffectKeepsInstance(c) ==
    [instance |-> c.instance,
     model |-> IF c.model # None THEN None ELSE c.model,
     model_path |-> None,
     raised |-> FALSE]

\* lines 41-59 on the class attributes.  The guarded block resets and drops
\* cls._model; an exception in it is caught (line 56).
CleanupEffect(c) ==
    [instance |-> NoObj,
     model |-> IF c.model # None THEN None ELSE c.model,
     model_path |-> None,
     raised |-> FALSE]

\* lines 40-59, atomic under the lock.  Instance attributes are not touched;
\* the object loses the class's reference to it.
Cleanup(t) ==
    /\ pc[t] = "cleanup"
    /\ lock = 0
    /\ LET eff == CleanupEffect(ClassState) IN
       /\ cls_instance' = eff.instance
       /\ cls_model' = eff.model
       /\ cls_model_path' = eff.model_path
       /\ cleaned' = ~eff.raised
       /\ IF eff.raised \/ ctx[t].top = "cleanup"
          THEN Done(t, models[t])
          ELSE \* load_model line 34-36: retry
               /\ pc' = [pc EXCEPT ![t] = "new"]
               /\ ctx' = [ctx EXCEPT ![t].try = @ + 1, ![t].cleanups = @ + 1]
               /\ UNCHANGED <<self, models>>
    /\ UNCHANGED <<lock, run>>
    /\ heap' = Sweep(heap)

\* ------------------------------------------------ LlamaModelManager.generate
\* lines 62-63: the loaded check, made before the lock is taken; on None
\* the call ends with ValueError("Model not loaded").
GenCheck(t) ==
    /\ pc[t] = "gen_check"
    /\ IF Attr_model(self[t]) = None
       THEN Done(t, models[t])
       ELSE /\ pc' = [pc EXCEPT ![t] = "gen_lock"]
            /\ UNCHANGED <<self, models, ctx>>
    /\ UNCHANGED <<lock, cls_instance, cls_model, cls_model_path, cleaned, run>>
    /\ heap' = Sweep(heap)

\* Variant of line 64 with one lock per manager object: a thread is kept
\* out only by a holder that works on the same object.
MayEnterGeneratePerInstance(t) == IF lock = 0 THEN TRUE ELSE self[lock] # self[t]

\* line 64: with self._lock (the one class-level lock)
MayEnterGenerate(t) == lock = 0

\* lines 64-65: take the lock and read self._model again for the call; on
\* None the attribute access raises AttributeError and the with-block
\* releases the lock.
GenLock(t) ==
    /\ pc[t] = "gen_lock"
    /\ MayEnterGenerate(t)
    /\ IF Attr_model(self[t]) = None
       THEN /\ Done(t, models[t])
            /\ UNCHANGED lock
       ELSE /\ pc' = [pc EXCEPT ![t] = "gen_engine"]
            /\ lock' = t
            /\ UNCHANGED <<self, models, ctx>>
    /\ UNCHANGED <<cls_instance, cls_model, cls_model_path, cleaned, run>>
    /\ heap' = Sweep(heap)

\* lines 65-73: create_completion returned; the text is returned and the
\* lock released.
GenReturn(t) ==
    /\ pc[t] = "gen_engine"
    /\ lock' = 0
    /\ Done(t, models[t])
    /\ UNCHANGED <<cls_instance, cls_model, cls_model_path, cleaned, run>>
    /\ heap' = Sweep(heap)

\* ------------------------------------------------------------ direct callers
StartCtx(top, p) == [IdleCtx EXCEPT !.top = top, !.arg = p, !.try = 1]

\* LlamaModelManager(model_path=p) (src/llama_model.py:78)
StartConstruct(t, p) ==
    /\ pc[t] = "idle"
    /\ pc' = [pc EXCEPT ![t] = "new"]
    /\ ctx' = [ctx EXCEPT ![t] = StartCtx("construct", p)]
    /\ UNCHANGED <<mgr, self, models, run, cleaned>>

\* LlamaModelManager.cleanup() (src/llama_model.py:83)
StartCleanup(t) ==
    /\ pc[t] = "idle"
    /\ pc' = [pc EXCEPT ![t] = "cleanup"]
    /\ ctx' = [ctx EXCEPT ![t] = StartCtx("cleanup", 0)]
    /\ UNCHANGED <<mgr, self, models, run, cleaned>>

\* model.generate(...) through a handle the caller holds
StartGenerate(t, i) ==
    /\ pc[t] = "idle"
    /\ i \in DOMAIN models[t]
    /\ models[t][i] # NoObj
    /\ pc' = [pc EXCEPT ![t] = "gen_check"]
    /\ self' = [self EXCEPT ![t] = models[t][i]]
    /\ ctx' = [ctx EXCEPT ![t] = StartCtx("generate", 0)]
    /\ UNCHANGED <<mgr, models, run, cleaned>>

\* load_model(p), line 28: the first constructor call
StartLoadModel(t, p) ==
    /\ pc[t] = "idle"
    /\ pc' = [pc EXCEPT ![t] = "new"]
    /\ ctx' = [ctx EXCEPT ![t] = StartCtx("load_model", p)]
    /\ UNCHANGED <<mgr, self, models, run, cleaned>>

\* -------------------------------------------------------------------- texts
\* A text read character by character is a sequence of one-character
\* strings.
Whitespace == {" ", "\n"}

\* "".join(s)
RECURSIVE Join(_)
Join(s) == IF s = <<>> THEN "" ELSE Head(s) \o Join(Tail(s))

RECURSIVE LStrip(_, _)
LStrip(s, B) == IF s # <<>> /\ Head(s) \in B THEN LStrip(Tail(s), B) ELSE s

RECURSIVE RStrip(_, _)
RStrip(s, B) ==
    IF s # <<>> /\ s[Len(s)] \in B THEN RStrip(SubSeq(s, 1, Len(s) - 1), B) ELSE s

\* s.strip() with B the characters taken off both ends
Strip(s, B) == RStrip(LStrip(s, B), B)

\* re.sub(r'\s+', ' ', text): every run of whitespace becomes one space
RECURSIVE Collapse(_)
Collapse(s) ==
    IF s = <<>> THEN <<>>
    ELSE IF Head(s) \in Whitespace
         THEN <<" ">> \o Collapse(LStrip(Tail(s), Whitespace))
         ELSE <<Head(s)>> \o Collapse(Tail(s))

\* Variant of clean_text without the strip() of line 7.
CleanTextNoStrip(s) == Collapse(s)

\* clean_text (src/process_text.py:5-7); the empty text stays empty
CleanText(s) == Strip(Collapse(s), Whitespace)

\* generate_ipa, lines 75-76: response.find("/ ") and response.rfind(" /"),
\* as positions counted from 1, with 0 for Python's -1
Find2(s, a, b) ==
    LET I == {i \in 1..(Len(s) - 1) : s[i] = a /\ s[i + 1] = b}
    IN IF I = {} THEN 0 ELSE Min(I)

RFind2(s, a, b) ==
    LET I == {i \in 1..(Len(s) - 1) : s[i] = a /\ s[i + 1] = b}
    IN IF I = {} THEN 0 ELSE Max(I)

\* response.count("/")
Count(s, c) == Cardinality({i \in DOMAIN s : s[i] = c})

\* response.split("/")[-2]: what stands between the last two slashes
BeforeLastSlash(s) ==
    LET I == {i \in DOMAIN s : s[i] = "/"}
        last == Max(I)
        prev == Max(I \ {last})
    IN SubSeq(s, prev + 1, last - 1)

\* generate_ipa, lines 75-82, on one response: the candidate the attempt
\* returns, None when the loop goes on to the next attempt.
ParseIpa(response) ==
    LET ipa_start == Find2(response, "/", " ")
        ipa_end == RFind2(response, " ", "/")
    IN IF ipa_start # 0 /\ ipa_end # 0 /\ ipa_start < ipa_end
       THEN Str(Join(SubSeq(response, ipa_start + 1, ipa_end)))
       ELSE IF Count(response, "/") >= 1
       THEN LET ipa == IF Count(response, "/") >= 2
                       THEN BeforeLastSlash(response)
                       ELSE Strip(response, {"/"})
            IN IF ipa # <<>> THEN Str("/" \o Join(ipa) \o "/") ELSE PyNone
       ELSE PyNone

\* A text that holds structured output is a sequence of tokens: braces, the
\* marker <<CAI-DSVV-IAI>>, blanks, words that are no JSON, the members of
\* an object ("key": value with its comma) and literals that are no object
\* (a number, null, an array).
LBrace == <<"{", 0>>
RBrace == <<"}", 0>>
Marker == <<"marker", 0>>
Sp == <<" ", 0>>
Word == <<"word", 0>>
Member(key, val) == <<"member", <<key, val>>>>
Lit(val) == <<"lit", val>>

Blank == {Sp}

\* The <<key, value>> items a run of member tokens stands for.
RECURSIVE Items(_)
Items(ms) == IF ms = <<>> THEN <<>> ELSE <<Val(Head(ms))>> \o Items(Tail(ms))

NotBlank(tok) == tok \notin Blank

\* json.loads(text): a literal alone or an object of members, blanks
\* between tokens ignored; everything else raises JSONDecodeError.
JsonLoads(toks) ==
    LET s == SelectSeq(toks, NotBlank)
    IN IF Len(s) = 1 /\ Kind(s[1]) = "lit" THEN Val(s[1])
       ELSE IF /\ Len(s) >= 2
               /\ s[1] = LBrace
               /\ s[Len(s)] = RBrace
               /\ \A i \in 2..(Len(s) - 1) : Kind(s[i]) = "member"
       THEN Obj(Items(SubSeq(s, 2, Len(s) - 1)))
       ELSE Raised

\* try: json.loads(text) / except: d
JsonLoadsOr(toks, d) == IF JsonLoads(toks) = Raised THEN d ELSE JsonLoads(toks)

\* line 288: json.loads(response, ensure_ascii=False).  json.loads hands
\* the keyword to JSONDecoder.__init__, which does not take it: TypeError,
\* whatever the response is.
JsonLoadsEnsureAscii(toks) == Raised

\* "<<CAI-DSVV-IAI>>" in response
HasMarker(s) == \E i \in DOMAIN s : s[i] = Marker

\* Variant of the split that keeps all that follows the first marker.
SplitAfterFirst(s) ==
    SubSeq(s, Min({i \in DOMAIN s : s[i] = Marker}) + 1, Len(s))

\* response.split("<<CAI-DSVV-IAI>>")[1]: what follows the first marker, up
\* to the second one when there is one
SplitSecond(s) ==
    LET first == Min({i \in DOMAIN s : s[i] = Marker})
        rest == SubSeq(s, first + 1, Len(s))
    IN IF HasMarker(rest)
       THEN SubSeq(rest, 1, Min({i \in DOMAIN rest : rest[i] = Marker}) - 1)
       ELSE rest

\* ------------------------------------------- the stage functions' results
\* for i, model in enumerate(models[:3]) (src/app.py:30, 37, 73)
NIpa == 3

\* for _ in range(2) (src/process_text.py:67)
IpaAttempts == 2

\* models[3], the evaluation model (src/app.py:50, 86, 98)
JudgeModel == 4

\* Variant of the fallback of evaluate_transcriptions that picks the last
\* candidate of each list.
FallbackVerdictLast(original_ipas, transcribed_ipas) ==
    Obj(<< <<"best_ipa_original", original_ipas[Len(original_ipas)]>>,
           <<"best_ipa_transcript", transcribed_ipas[Len(transcribed_ipas)]>>,
           <<"confidence", Num(5)>> >>)

\* evaluate_transcriptions, lines 142-146
FallbackVerdict(original_ipas, transcribed_ipas) ==
    Obj(<< <<"best_ipa_original", original_ipas[1]>>,
           <<"best_ipa_transcript", transcribed_ipas[1]>>,
           <<"confidence", Num(5)>> >>)

\* evaluate_transcriptions, lines 139-146: the JSON after the first marker
\* or, when the split or the parse raises, the fallback.
EvaluateTranscriptions(response, original_ipas, transcribed_ipas) ==
    LET parsed == IF HasMarker(response) THEN JsonLoads(SplitSecond(response))
                  ELSE Raised
    IN IF parsed = Raised THEN FallbackVerdict(original_ipas, transcribed_ipas)
       ELSE parsed

\* the dict analyze_articulation_errors returns (lines 252-255)
Analysis(errors, organs) ==
    Obj(<< <<"errors", errors>>, <<"affected_speech_organs", organs>> >>)

\* evaluate_soda_analyses, lines 290-294
FallbackSodaVerdict(analyses) ==
    Obj(<< <<"selected_analysis", Num(0)>>,
           <<"confidence", Num(5)>>,
           <<"consolidated_analysis", analyses[1]>> >>)

\* evaluate_soda_analyses, lines 287-294
EvaluateSodaAnalyses(response, analyses) ==
    LET parsed == JsonLoadsEnsureAscii(response)
    IN IF parsed = Raised THEN FallbackSodaVerdict(analyses) ELSE parsed

\* the four categories of lines 425-428
Categories == {"Substitution", "Omission", "Distortion", "Addition"}

\* the key of error_breakdown a category is counted under
BreakdownKey(c) ==
    CASE c = "Substitution" -> "substitution"
      [] c = "Omission" -> "omission"
      [] c = "Distortion" -> "distortion"
      [] c = "Addition" -> "addition"

\* Variant of the per-category count that counts every error.
CountTypeAll(errors, ty) == Len(errors)

\* sum(1 for e in soda_analysis["errors"] if e["type"] == ty)
CountType(errors, ty) ==
    Cardinality({i \in DOMAIN errors : Get(errors[i], "type") = Str(ty)})

\* line 432, the string used when no profile is given
NeutralInsight == "No significant psychological impact noted"

\* generate_soda_summary, lines 422-434: the dict built in the except
\* branch, Raised when building it raises (a missing key, len() of a value
\* that has none, e["type"] on an entry that is no dict with that key,
\* .get on a profile that is no dict).
SummaryFallback(soda_analysis, psychological_profile) ==
    IF ~HasKey(soda_analysis, "errors") THEN Raised
    ELSE LET errors == Get(soda_analysis, "errors") IN
    IF Kind(errors) \notin {"list", "str", "obj"} THEN Raised
    ELSE IF Kind(errors) # "list" /\ Truthy(errors) THEN Raised
    ELSE LET es == IF Kind(errors) = "list" THEN Val(errors) ELSE <<>> IN
    IF \E i \in DOMAIN es : ~HasKey(es[i], "type") THEN Raised
    ELSE IF ~HasKey(soda_analysis, "affected_speech_organs") THEN Raised
    ELSE IF Truthy(psychological_profile) /\ Kind(psychological_profile) # "obj"
    THEN Raised
    ELSE Obj(<<
        <<"total_errors", Num(Len(es))>>,
        <<"error_breakdown",
          Obj(<< <<"substitution", Num(CountType(es, "Substitution"))>>,
                 <<"omission", Num(CountType(es, "Omission"))>>,
                 <<"distortion", Num(CountType(es, "Distortion"))>>,
                 <<"addition", Num(CountType(es, "Addition"))>> >>)>>,
        <<"most_affected_organs",
          IF Truthy(Get(soda_analysis, "affected_speech_organs"))
          THEN Get(soda_analysis, "affected_speech_organs")
          ELSE List(<<Str("unknown")>>)>>,
        <<"articulation_accuracy", Str("Moderate")>>,
        <<"psychological_insights",
          IF ~Truthy(psychological_profile) THEN Str(NeutralInsight)
          ELSE Str("Based on profile: "
                   \o PyStr(GetOr(psychological_profile, "speech_impact",
                                  Str("Moderate"))))>>,
        <<"confidence", Num(5)>> >>)

\* generate_soda_summary, lines 419-434
GenerateSodaSummary(response, soda_analysis, psychological_profile) ==
    LET parsed == JsonLoads(response)
    IN IF parsed = Raised
       THEN SummaryFallback(soda_analysis, psychological_profile)
       ELSE parsed

\* ------------------------------------------------------------------ inputs
\* original_text of process_inputs; the caller passes a text that is not
\* blank (src/app.py:317).
OriginalText == "a"

\* What audio_to_text_whisper may return.
RawTexts == {<<>>, <<" ">>, <<"\n", " ">>, <<" ", "a", "\n", " ", "a", " ">>,
             <<"a", " ", "a">>}

\* What the engine may answer to the prompt of generate_ipa.
IpaTexts == {<<"a">>, <<"/">>, <<" ", "/", "a", "/">>}

\* Further answers to the prompt of generate_ipa: a transcription set off
\* by blanks inside the slashes, one slash before the transcription, and
\* words around a transcription.
MoreIpaTexts == {<<"/", " ", "a", " ", "/">>, <<"/", "a">>,
                 <<"a", " ", "/", "a", "/", " ", "a">>}

\* Texts a caller may hand to generate_ipa.
GivenTexts == {"", "a"}

\* One error entry of the given type.
Error(ty) == Obj(<< <<"type", Str(ty)>> >>)

\* Values the engine's structured answers are made of.
PickedIpa == Str("/e/")
OtherIpa == Str("/i/")
TwoSubstOneOmission == List(<<Error("Substitution"), Error("Substitution"),
                             Error("Omission")>>)
Tongue == List(<<Str("tongue")>>)
MergedAnalysis == Analysis(List(<<Error("Omission")>>), List(<<Str("lips")>>))

\* What the engine may answer to the prompt of evaluate_transcriptions:
\* prose, the verdict as asked for, a verdict without confidence, an empty
\* object, a number, a verdict whose closing marker is missing, a verdict
\* with words around the markers, a verdict cut off before its closing
\* brace, and a verdict without markers, whole and cut off.
JudgeTexts == {
    <<Word>>,
    <<Marker, LBrace, Member("best_ipa_original", PickedIpa),
      Member("best_ipa_transcript", PickedIpa), Member("confidence", Num(8)),
      Member("selected_model", Num(2)), RBrace, Marker>>,
    <<Marker, LBrace, Member("best_ipa_original", PickedIpa),
      Member("best_ipa_transcript", PickedIpa), RBrace, Marker>>,
    <<Marker, LBrace, RBrace, Marker>>,
    <<Marker, Lit(Num(7)), Marker>>,
    <<Sp, Marker, LBrace, Member("best_ipa_original", PickedIpa),
      Member("best_ipa_transcript", PickedIpa), Member("confidence", Num(8)),
      RBrace>>,
    <<Word, Marker, LBrace, Member("best_ipa_original", PickedIpa),
      Member("best_ipa_transcript", OtherIpa), RBrace, Marker, Word>>,
    <<Marker, LBrace, Member("best_ipa_original", PickedIpa),
      Member("best_ipa_transcript", OtherIpa)>>,
    <<LBrace, Member("best_ipa_original", PickedIpa),
      Member("best_ipa_transcript", PickedIpa), Member("confidence", Num(8)),
      RBrace>>,
    <<LBrace, Member("best_ipa_original", PickedIpa),
      Member("best_ipa_transcript", PickedIpa), Member("confidence", Num(8))>>}

\* What the engine may answer to the errors prompt: prose, the list asked
\* for, an empty list, an object without "errors", an array, and an object whose "errors"
\* is a text.
ErrorsTexts == {
    <<Word>>,
    <<LBrace, Member("errors", TwoSubstOneOmission), RBrace, Sp>>,
    <<LBrace, Member("errors", List(<<>>)), RBrace>>,
    <<LBrace, RBrace>>,
    <<Lit(List(<<>>))>>,
    <<LBrace, Member("errors", Str("x")), RBrace>>}

\* What the engine may answer to the organs prompt: prose, the object asked
\* for, and a number.
OrgansTexts == {
    <<Word>>,
    <<LBrace, Member("affected_speech_organs", Tongue), RBrace>>,
    <<Lit(Num(1))>>}

\* What the engine may answer to the prompt of evaluate_soda_analyses; the
\* stop sequence '}\n' takes the closing brace off a verdict.
SodaTexts == {
    <<Word>>,
    <<LBrace, Member("selected_analysis", Num(2)), Member("confidence", Num(9)),
      Member("consolidated_analysis", MergedAnalysis)>>}

\* What the engine may answer to the prompt of generate_soda_summary: prose,
\* the summary asked for (closing brace taken off by the stop sequence), a
\* lone opening brace, and a summary that kept its closing brace.
SummaryTexts == {
    <<Word>>,
    <<LBrace, Member("total_errors", Num(1)),
      Member("error_breakdown",
             Obj(<< <<"substitution", Num(1)>>, <<"omission", Num(0)>>,
                    <<"distortion", Num(0)>>, <<"addition", Num(0)>> >>)),
      Member("most_affected_organs", Tongue),
      Member("articulation_accuracy", Str("High")),
      Member("psychological_insights", Str("none")),
      Member("confidence", Num(7))>>,
    <<LBrace>>,
    <<LBrace, Member("total_errors", Num(1)), RBrace>>}

\* Candidates generate_ipa returns, for direct calls of the judge.
Candidates == {ParseIpa(<<"/", "a", "/">>), ParseIpa(<<"/", " ", "a", " ", "/">>)}

\* Analyses a caller may hand to evaluate_soda_analyses and
\* generate_soda_summary: no error, the three errors above, an error of a
\* type outside the four categories, and entries that are no objects.
GivenAnalyses == {
    Analysis(List(<<>>), List(<<>>)),
    Analysis(TwoSubstOneOmission, Tongue),
    Analysis(List(<<Error("Distortion"), Error("Lisp")>>), List(<<>>)),
    Analysis(List(<<Str("x")>>), Tongue)}

\* psychological_profile: not given, an empty form, a form with and
\* without the speech_impact answer.
Profiles == {
    PyNone,
    Obj(<<>>),
    Obj(<< <<"speech_impact", Str("Severe")>> >>),
    Obj(<< <<"full_name", Str("A")>> >>)}

\* ------------------------------------------- process_inputs (src/app.py)
\* The path recorded for the live model, None when no model is live.
LivePath ==
    IF cls_instance # NoObj /\ IsModel(Attr_model(cls_instance))
    THEN Attr_model_path(cls_instance) ELSE None

\* The running function was called by process_inputs.
InRun(t) == ctx[t].top = "run"

\* The steps of the generation stages leave the manager's class attributes
\* and lock alone; handles that went out of scope are freed.
ManagerUntouched ==
    /\ UNCHANGED <<lock, cls_instance, cls_model, cls_model_path, cleaned>>
    /\ heap' = Sweep(heap)

\* Thread t goes on at statement p, with h the model the next call is given.
Goto(t, p, h) ==
    /\ pc' = [pc EXCEPT ![t] = p]
    /\ self' = [self EXCEPT ![t] = h]
    /\ UNCHANGED <<models, ctx>>

\* An exception leaves the running function; nothing in process_inputs
\* catches it, so a run ends with it and its locals are dropped.
Raises(t) ==
    /\ Done(t, IF InRun(t) THEN <<>> ELSE models[t])
    /\ run' = IF InRun(t) THEN NoRun ELSE run

\* A function called directly returns; r holds what it returned.
Returns(t, r) ==
    /\ Done(t, models[t])
    /\ run' = r

\* generate, lines 62-63: ValueError("Model not loaded")
GenerateRaises(h) == Attr_model(h) = None

\* process_inputs is entered with model_paths = ps; the transcriber is about
\* to return raw (line 12).
StartRun(t, ps, raw) ==
    /\ pc[t] = "idle"
    /\ pc' = [pc EXCEPT ![t] = "run_text"]
    /\ ctx' = [ctx EXCEPT ![t] = [StartCtx("run", 0) EXCEPT !.try = 0]]
    /\ run' = [NoRun EXCEPT !.paths = ps, !.startLive = LivePath, !.raw = raw]
    /\ UNCHANGED <<mgr, self, models, cleaned>>

\* lines 13-16: clean_text, and the run is abandoned (return None) when
\* nothing is left of the transcription.
RunTranscribe(t) ==
    /\ pc[t] = "run_text"
    /\ LET transcribed_text == Join(CleanText(run.raw))
       IN IF transcribed_text = ""
          THEN /\ Done(t, <<>>)
               /\ run' = NoRun
          ELSE /\ Goto(t, "run_load", NoObj)
               /\ run' = [run EXCEPT !.raw = <<>>,
                                     !.transcribed_text = transcribed_text]
    /\ ManagerUntouched

\* line 12: audio_to_text_whisper raises RuntimeError
\* (src/audiototext.py:76-83)
RunTranscribeRaises(t) ==
    /\ pc[t] = "run_text"
    /\ Raises(t)
    /\ ManagerUntouched

\* line 19: the next load_model(path) of the list comprehension
RunLoad(t) ==
    /\ pc[t] = "run_load"
    /\ Len(models[t]) < NModelPaths
    /\ pc' = [pc EXCEPT ![t] = "new"]
    /\ ctx' = [ctx EXCEPT ![t] = StartCtx("run", run.paths[Len(models[t]) + 1])]
    /\ UNCHANGED <<mgr, self, models, run, cleaned>>

\* line 20: all(models)
AllLoaded(ms) == \A i \in DOMAIN ms : ms[i] # NoObj

\* The model of the k-th generate_ipa call: models[:3] for the original
\* text, then models[:3] for the transcription (lines 30, 37).
IpaModel(k) == ((k - 1) % NIpa) + 1

\* The text of the k-th generate_ipa call of a run (lines 31, 38).
IpaText(k) == IF k <= NIpa THEN OriginalText ELSE run.transcribed_text

\* The text generate_ipa was called with.
Text(t) == IF InRun(t) THEN IpaText(run.k) ELSE run.text

\* The engine was called once more (LlamaModelManager.generate, line 65).
Called(r) == [r EXCEPT !.calls = @ + 1]

\* lines 20-22: the run is abandoned when a load_model returned None;
\* otherwise it goes on to the generation stages.  model_paths is not read
\* again.
RunCheck(t) ==
    /\ pc[t] = "run_load"
    /\ Len(models[t]) = NModelPaths
    /\ IF AllLoaded(models[t])
       THEN /\ pc' = [pc EXCEPT ![t] = "ipa_call"]
            /\ self' = [self EXCEPT ![t] = models[t][IpaModel(1)]]
            /\ ctx' = [ctx EXCEPT ![t] = [StartCtx("run", 0) EXCEPT !.try = 0]]
            /\ run' = [run EXCEPT !.paths = <<>>, !.loads = 0, !.loaded = 0,
                                  !.startLive = None, !.k = 1, !.attempt = 1]
            /\ UNCHANGED models
       ELSE /\ Done(t, <<>>)
            /\ run' = NoRun
    /\ ManagerUntouched

\* generate_ipa returned ipa: lines 32-33 and 39-40 keep it when it is
\* truthy, and the loops go on to the next call or to line 43.
IpaReturns(t, ipa) ==
    LET r == [run EXCEPT
                !.original_ipas =
                    IF Truthy(ipa) /\ run.k <= NIpa THEN Append(@, ipa) ELSE @,
                !.transcribed_ipas =
                    IF Truthy(ipa) /\ run.k > NIpa THEN Append(@, ipa) ELSE @,
                !.response = <<>>]
    IN IF ~InRun(t)
       THEN Returns(t, [run EXCEPT !.ipa = ipa, !.attempt = 0])
       ELSE IF run.k < 2 * NIpa
       THEN /\ Goto(t, "ipa_call", models[t][IpaModel(run.k + 1)])
            /\ run' = [r EXCEPT !.k = @ + 1, !.attempt = 1]
       ELSE /\ Goto(t, "run_quorum", NoObj)
            /\ run' = [r EXCEPT !.k = 0, !.attempt = 0]

\* Variant of the loop of line 67 that tries once more after the last
\* attempt.
MayRetryOnceMore(attempt) == attempt <= IpaAttempts

\* line 67, for _ in range(2): another attempt follows this one
MayRetry(attempt) == attempt < IpaAttempts

\* What the engine answers a generate_ipa call with: a run is followed on
\* the answers that give one candidate, a direct call on all of them.
IpaAnswers(t) == IF InRun(t) THEN IpaTexts ELSE IpaTexts \cup MoreIpaTexts

\* model.generate(...) as a stage function calls it (no try block surrounds
\* any of the calls, so every exception ends the function).  ctx.gen is the
\* position inside generate: 0 before the check of line 62, 1 after it and
\* before the lock of line 64, 2 inside create_completion with the lock held.
\* p is the statement after the call and responses what the caller may hold
\* then (the returned text, stripped).
CallGenerate(t, p, responses) ==
    IF ctx[t].gen = 0
    THEN \* lines 62-63: ValueError("Model not loaded")
         /\ IF GenerateRaises(self[t])
            THEN Raises(t)
            ELSE /\ ctx' = [ctx EXCEPT ![t].gen = 1]
                 /\ UNCHANGED <<pc, self, models, run>>
         /\ ManagerUntouched
    ELSE IF ctx[t].gen = 1
    THEN \* lines 64-65: wait for the lock, then read self._model for the
         \* call; on None the attribute access raises AttributeError.
         /\ MayEnterGenerate(t)
         /\ IF Attr_model(self[t]) = None
            THEN /\ Raises(t)
                 /\ UNCHANGED lock
            ELSE /\ lock' = t
                 /\ ctx' = [ctx EXCEPT ![t].gen = 2]
                 /\ run' = Called(run)
                 /\ UNCHANGED <<pc, self, models>>
         /\ UNCHANGED <<cls_instance, cls_model, cls_model_path, cleaned>>
         /\ heap' = Sweep(heap)
    ELSE \* lines 65-73: create_completion returns a text or raises; the
         \* with-block releases the lock either way.
         /\ lock' = 0
         /\ \/ Raises(t)
            \/ \E r \in responses :
                  /\ pc' = [pc EXCEPT ![t] = p]
                  /\ ctx' = [ctx EXCEPT ![t].gen = 0]
                  /\ run' = [run EXCEPT !.response = r]
                  /\ UNCHANGED <<self, models>>
         /\ UNCHANGED <<cls_instance, cls_model, cls_model_path, cleaned>>
         /\ heap' = Sweep(heap)

\* generate_ipa, lines 50-51 and 68-73: one attempt's call of the engine;
\* generate strips the text and generate_ipa strips it again.
IpaCall(t) ==
    /\ pc[t] = "ipa_call"
    /\ IF Text(t) = ""
       THEN /\ IpaReturns(t, PyNone)
            /\ ManagerUntouched
       ELSE CallGenerate(t, "ipa_parse",
                {Strip(Strip(text, Whitespace), Whitespace) : text \in IpaAnswers(t)})

\* generate_ipa, lines 75-83: a candidate is returned, or the next attempt
\* is made, or None is returned after the last attempt.
IpaParse(t) ==
    /\ pc[t] = "ipa_parse"
    /\ LET ipa == ParseIpa(run.response)
       IN IF ipa # PyNone
          THEN IpaReturns(t, ipa)
          ELSE IF MayRetry(run.attempt)
          THEN /\ Goto(t, "ipa_call", self[t])
               /\ run' = [run EXCEPT !.attempt = @ + 1, !.response = <<>>]
          ELSE IpaReturns(t, PyNone)
    /\ ManagerUntouched

\* Variant of line 43 that gives up only when both lists are short.
InsufficientBoth(original_ipas, transcribed_ipas) ==
    Len(original_ipas) < NIpa /\ Len(transcribed_ipas) < NIpa

\* line 43: len(original_ipas) < 3 or len(transcribed_ipas) < 3
Insufficient(original_ipas, transcribed_ipas) ==
    Len(original_ipas) < NIpa \/ Len(transcribed_ipas) < NIpa

\* lines 43-45: return None, or go on to evaluate_transcriptions.
Quorum(t) ==
    /\ pc[t] = "run_quorum"
    /\ IF Insufficient(run.original_ipas, run.transcribed_ipas)
       THEN /\ Done(t, <<>>)
            /\ run' = NoRun
       ELSE /\ Goto(t, "judge_call", models[t][JudgeModel])
            /\ UNCHANGED run
    /\ ManagerUntouched

\* evaluate_transcriptions, lines 132-137: the judge's answer, stripped by
\* generate and again here, with '}' appended.
JudgeCall(t) ==
    /\ pc[t] = "judge_call"
    /\ CallGenerate(t, "judge_parse",
           {Append(Strip(Strip(text, Blank), Blank), RBrace) : text \in JudgeTexts})

\* Variant of lines 68-69 that reads the two picks the other way round.
PicksSwapped(evaluation) ==
    IF HasKey(evaluation, "best_ipa_original")
       /\ HasKey(evaluation, "best_ipa_transcript")
    THEN <<Get(evaluation, "best_ipa_transcript"),
           Get(evaluation, "best_ipa_original")>>
    ELSE Raised

\* lines 68-69: best_original_ipa and best_transcribed_ipa, Raised when a
\* subscript raises (KeyError, or TypeError on a value that is no dict)
Picks(evaluation) ==
    IF HasKey(evaluation, "best_ipa_original")
       /\ HasKey(evaluation, "best_ipa_transcript")
    THEN <<Get(evaluation, "best_ipa_original"),
           Get(evaluation, "best_ipa_transcript")>>
    ELSE Raised

\* evaluate_transcriptions, lines 139-146, and for a run lines 57-69 of
\* process_inputs: the verdict is stored and both picks are read from it.
JudgeParse(t) ==
    /\ pc[t] = "judge_parse"
    /\ LET evaluation == EvaluateTranscriptions(run.response, run.original_ipas,
                                                run.transcribed_ipas)
       IN IF ~InRun(t)
          THEN Returns(t, [run EXCEPT !.evaluation = evaluation])
          ELSE IF Picks(evaluation) # Raised
          THEN /\ Goto(t, "errors_call", models[t][1])
               /\ run' = [run EXCEPT
                            !.evaluation = evaluation,
                            !.best_original_ipa = Picks(evaluation)[1],
                            !.best_transcribed_ipa = Picks(evaluation)[2],
                            !.response = <<>>, !.k = 1]
          ELSE Raises(t)
    /\ ManagerUntouched

\* analyze_articulation_errors, lines 196-201
ErrorsCall(t) ==
    /\ pc[t] = "errors_call"
    /\ CallGenerate(t, "errors_parse",
           {Strip(text, Blank) : text \in ErrorsTexts})

\* line 73, for i, model in enumerate(models[:3]): another model follows
\* the k-th
MoreAnalyses(k) == k < NIpa

\* analyze_articulation_errors returned analysis: lines 81 and 73 of
\* process_inputs append it and go on to the next model or to line 85.
AnalysisReturns(t, analysis) ==
    LET r == [run EXCEPT !.soda_analyses = Append(@, analysis),
                         !.errors = PyNone, !.response = <<>>]
    IN IF MoreAnalyses(run.k)
       THEN /\ Goto(t, "errors_call", models[t][run.k + 1])
            /\ run' = [r EXCEPT !.k = @ + 1]
       ELSE /\ Goto(t, "soda_call", models[t][JudgeModel])
            /\ run' = [r EXCEPT !.k = 0]

\* Variant of line 209 that asks for the organs of every analysis.
NeedsOrgansAlways(errors) == TRUE

\* line 209: if errors_data["errors"]
NeedsOrgans(errors) == Truthy(errors)

\* analyze_articulation_errors, lines 203-209 and 248-255
ErrorsParse(t) ==
    /\ pc[t] = "errors_parse"
    /\ LET errors_data == JsonLoadsOr(run.response,
                                      Obj(<< <<"errors", List(<<>>)>> >>))
       IN IF ~HasKey(errors_data, "errors")
          THEN Raises(t)
          ELSE IF NeedsOrgans(Get(errors_data, "errors"))
          THEN /\ Goto(t, "organs_call", self[t])
               /\ run' = [run EXCEPT !.errors = Get(errors_data, "errors"),
                                     !.response = <<>>]
          ELSE AnalysisReturns(t, Analysis(Get(errors_data, "errors"), List(<<>>)))
    /\ ManagerUntouched

\* analyze_articulation_errors, lines 237-242
OrgansCall(t) ==
    /\ pc[t] = "organs_call"
    /\ CallGenerate(t, "organs_parse",
           {Strip(text, Blank) : text \in OrgansTexts})

\* analyze_articulation_errors, lines 244-255; .get on a parsed value that
\* is no dict raises AttributeError.
OrgansParse(t) ==
    /\ pc[t] = "organs_parse"
    /\ LET organs_data ==
               JsonLoadsOr(run.response,
                           Obj(<< <<"affected_speech_organs", List(<<>>)>> >>))
       IN IF Kind(organs_data) # "obj"
          THEN Raises(t)
          ELSE AnalysisReturns(t,
                   Analysis(run.errors,
                            GetOr(organs_data, "affected_speech_organs",
                                  List(<<>>))))
    /\ ManagerUntouched

\* evaluate_soda_analyses, lines 280-285
SodaCall(t) ==
    /\ pc[t] = "soda_call"
    /\ CallGenerate(t, "soda_parse",
           {Append(Strip(Strip(text, Blank), Blank), RBrace) : text \in SodaTexts})

\* evaluate_soda_analyses, lines 287-294, and for a run lines 91-104 of
\* process_inputs: generate_soda_summary is called without a profile.
SodaParse(t) ==
    /\ pc[t] = "soda_parse"
    /\ LET soda_evaluation == EvaluateSodaAnalyses(run.response, run.soda_analyses)
       IN IF ~InRun(t)
          THEN Returns(t, [run EXCEPT !.soda_evaluation = soda_evaluation])
          ELSE IF HasKey(soda_evaluation, "consolidated_analysis")
          THEN /\ Goto(t, "summary_prompt", models[t][JudgeModel])
               /\ run' = [run EXCEPT
                            !.soda_evaluation = soda_evaluation,
                            !.soda_analysis =
                                Get(soda_evaluation, "consolidated_analysis"),
                            !.profile = PyNone,
                            !.response = <<>>]
          ELSE Raises(t)
    /\ ManagerUntouched

\* generate_soda_summary, lines 372-410: the prompt is built.  Line 381
\* reads "json.dumps(profile) if profile else {{}}" inside a replacement
\* field, where {{}} is a set display holding a dict: TypeError (unhashable)
\* whenever the profile is None or empty.
SummaryPrompt(t) ==
    /\ pc[t] = "summary_prompt"
    /\ IF Truthy(run.profile)
       THEN /\ Goto(t, "summary_call", self[t])
            /\ UNCHANGED run
       ELSE Raises(t)
    /\ ManagerUntouched

\* generate_soda_summary, lines 412-417
SummaryCall(t) ==
    /\ pc[t] = "summary_call"
    /\ CallGenerate(t, "summary_parse",
           {Append(Strip(Strip(text, Blank), Blank), RBrace) : text \in SummaryTexts})

\* generate_soda_summary, lines 419-434, and for a run lines 105-107 of
\* process_inputs: the summary is stored and the results are returned.
SummaryParse(t) ==
    /\ pc[t] = "summary_parse"
    /\ LET soda_summary == GenerateSodaSummary(run.response, run.soda_analysis,
                                               run.profile)
       IN IF soda_summary = Raised
          THEN Raises(t)
          ELSE IF InRun(t)
          THEN /\ Done(t, <<>>)
               /\ run' = [run EXCEPT !.soda_summary = soda_summary]
          ELSE Returns(t, [run EXCEPT !.soda_summary = soda_summary])
    /\ ManagerUntouched

\* -------------------------------------- direct callers of the stage functions
\* generate_ipa(model, text)
StartGenerateIpa(t, text) ==
    /\ pc[t] = "idle"
    /\ models[t] # <<>>
    /\ pc' = [pc EXCEPT ![t] = "ipa_call"]
    /\ self' = [self EXCEPT ![t] = models[t][1]]
    /\ ctx' = [ctx EXCEPT ![t] = StartCtx("generate_ipa", 0)]
    /\ run' = [NoRun EXCEPT !.text = text, !.attempt = 1]
    /\ UNCHANGED <<mgr, models, cleaned>>

\* evaluate_transcriptions(model, ..., original_ipas, transcribed_ipas)
StartEvaluateTranscriptions(t, original_ipas, transcribed_ipas) ==
    /\ pc[t] = "idle"
    /\ models[t] # <<>>
    /\ pc' = [pc EXCEPT ![t] = "judge_call"]
    /\ self' = [self EXCEPT ![t] = models[t][1]]
    /\ ctx' = [ctx EXCEPT ![t] = StartCtx("evaluate_transcriptions", 0)]
    /\ run' = [NoRun EXCEPT !.original_ipas = original_ipas,
                            !.transcribed_ipas = transcribed_ipas]
    /\ UNCHANGED <<mgr, models, cleaned>>

\* evaluate_soda_analyses(model, analyses)
StartEvaluateSodaAnalyses(t, analyses) ==
    /\ pc[t] = "idle"
    /\ models[t] # <<>>
    /\ pc' = [pc EXCEPT ![t] = "soda_call"]
    /\ self' = [self EXCEPT ![t] = models[t][1]]
    /\ ctx' = [ctx EXCEPT ![t] = StartCtx("evaluate_soda_analyses", 0)]
    /\ run' = [NoRun EXCEPT !.soda_analyses = analyses]
    /\ UNCHANGED <<mgr, models, cleaned>>

\* generate_soda_summary(model, ..., soda_analysis, psychological_profile)
\* (src/app.py:337-346 passes the form; process_inputs passes no profile)
StartGenerateSodaSummary(t, soda_analysis, psychological_profile) ==
    /\ pc[t] = "idle"
    /\ models[t] # <<>>
    /\ pc' = [pc EXCEPT ![t] = "summary_prompt"]
    /\ self' = [self EXCEPT ![t] = models[t][1]]
    /\ ctx' = [ctx EXCEPT ![t] = StartCtx("generate_soda_summary", 0)]
    /\ run' = [NoRun EXCEPT !.soda_analysis = soda_analysis,
                            !.profile = psychological_profile]
    /\ UNCHANGED <<mgr, models, cleaned>>

ManagerStep(t) ==
    \/ New(t)
    \/ NewReturn(t)
    \/ InitEnter(t)
    \/ InitLoadOk(t)
    \/ InitLoadFail(t)
    \/ Cleanup(t)

GenerateStep(t) ==
    \/ GenCheck(t)
    \/ GenLock(t)
    \/ GenReturn(t)

\* What a thread may do with the manager itself.
Step(t) ==
    \/ \E p \in Paths : StartConstruct(t, p)
    \/ StartCleanup(t)
    \/ \E i \in 1..NModelPaths : StartGenerate(t, i)
    \/ ManagerStep(t)
    \/ GenerateStep(t)

Next == \E t \in Threads : Step(t)

Spec == Init /\ [][Next]_vars

\* One thread: the operations in program order, nothing interleaved, with
\* load_model among the callers.
NextSeq ==
    \/ Step(1)
    \/ \E p \in Paths : StartLoadModel(1, p)

SpecSeq == Init /\ [][NextSeq]_vars

\* One pipeline run after another in one thread.  No run gets past the
\* prompt of generate_soda_summary (SummaryPrompt), so the steps after it
\* are not among the steps of a run.
RunBody(t) ==
    \/ RunTranscribe(t)
    \/ RunTranscribeRaises(t)
    \/ RunLoad(t)
    \/ RunCheck(t)
    \/ IpaCall(t)
    \/ IpaParse(t)
    \/ Quorum(t)
    \/ JudgeCall(t)
    \/ JudgeParse(t)
    \/ ErrorsCall(t)
    \/ ErrorsParse(t)
    \/ OrgansCall(t)
    \/ OrgansParse(t)
    \/ SodaCall(t)
    \/ SodaParse(t)
    \/ SummaryPrompt(t)

RunStep(t) ==
    \/ \E ps \in [1..NModelPaths -> Paths], raw \in RawTexts : StartRun(t, ps, raw)
    \/ RunBody(t)

NextRun ==
    \/ RunStep(1)
    \/ ManagerStep(1)

SpecRun == Init /\ [][NextRun]_vars

\* model_paths as the application builds it: four times the same path
\* (src/app.py:208-213).
SamePaths == {[i \in 1..NModelPaths |-> p] : p \in Paths}

\* The runs of the application, one after another.
NextRunSame ==
    \/ \E ps \in SamePaths, raw \in RawTexts : StartRun(1, ps, raw)
    \/ RunBody(1)
    \/ ManagerStep(1)

\* The thread of a run executes its next statement: every call the run
\* makes returns or raises.
SpecRunFair ==
    Init /\ [][NextRunSame]_vars /\ WF_vars(RunBody(1) \/ ManagerStep(1))

\* The state after load_model(1) returned its handle to thread 1.
InitFn ==
    /\ lock = 0
    /\ cls_instance = 1
    /\ cls_model = None
    /\ cls_model_path = None
    /\ heap = [o \in ObjIds |-> IF o = 1 THEN [model |-> 1, path |-> 1] ELSE Absent]
    /\ pc = [t \in Threads |-> "idle"]
    /\ self = [t \in Threads |-> NoObj]
    /\ models = [t \in Threads |-> IF t = 1 THEN <<1>> ELSE <<>>]
    /\ ctx = [t \in Threads |-> IdleCtx]
    /\ run = NoRun
    /\ cleaned = FALSE

\* The judges and the summary called one after another with a loaded model,
\* on candidates, analyses and profiles a caller may hold.
NextFn ==
    \/ \E text \in GivenTexts : StartGenerateIpa(1, text)
    \/ IpaCall(1)
    \/ IpaParse(1)
    \/ \E o \in [1..NIpa -> Candidates], tr \in [1..NIpa -> Candidates] :
          StartEvaluateTranscriptions(1, o, tr)
    \/ \E as \in [1..NIpa -> GivenAnalyses] : StartEvaluateSodaAnalyses(1, as)
    \/ \E a \in GivenAnalyses, p \in Profiles : StartGenerateSodaSummary(1, a, p)
    \/ JudgeCall(1)
    \/ JudgeParse(1)
    \/ SodaCall(1)
    \/ SodaParse(1)
    \/ SummaryPrompt(1)
    \/ SummaryCall(1)
    \/ SummaryParse(1)

SpecFn == InitFn /\ [][NextFn]_vars

\* ===================================================================
\* Properties
\* ===================================================================

\* Loaded Llama objects in the process: those a referenced manager object
\* holds and the one a running Llama(...) call is building.
HeldModels ==
    Cardinality({o \in ObjIds : IsModel(heap[o].model)})
    + Cardinality({t \in Threads : pc[t] = "init_load"})

\* C1: at most one loaded model is held process-wide, counting every manager
\* object a caller still references and the instant a model for another
\* path is being loaded.
C1_AtMostOneModelHeld == HeldModels <= 1

\* Threads inside create_completion.
InFlight == {t \in Threads : pc[t] = "gen_engine"}

\* C2: at most one call of the engine's completion operation is in flight,
\* across all manager objects.
C2_OneCompletionInFlight == Cardinality(InFlight) <= 1

\* C2 witness: a completion runs on one manager object while another thread
\* has passed the loaded check of a different manager object and waits.
C2_Witness ==
    \E t \in Threads, u \in Threads :
        /\ pc[t] = "gen_engine"
        /\ pc[u] = "gen_lock"
        /\ self[t] # self[u]
        /\ IsModel(heap[self[u]].model)

\* The step in which thread t leaves statement l.
Leaves(t, l) == pc[t] = l /\ pc'[t] # l

\* C3: generate fails with the not-loaded error whenever no model is live and
\* whenever its handle is not the live one.
C3_StaleHandleIsNotLoaded ==
    [][\A t \in Threads :
        (Leaves(t, "gen_check") /\ (LivePath = None \/ self[t] # cls_instance))
            => pc'[t] = "idle"]_vars

\* C4: while the engine load for another path runs, the model that was live
\* has already been released.
C4_ReleasedBeforeLoad ==
    \A t \in Threads : pc[t] = "init_load" => ~IsModel(heap[self[t]].model)

\* The model_paths of the run are one identifier four times.
EqualPaths == run.paths # <<>> /\ \A i \in DOMAIN run.paths : run.paths[i] = run.paths[1]

\* The load stage of thread t is complete (line 19 evaluated).
LoadStageDone(t) == pc[t] = "run_load" /\ Len(models[t]) = NModelPaths

\* Constructing with path p while a model loaded from p is live loads
\* nothing and leaves the live model and its path unchanged.
NoReloadOfLivePath ==
    [][\A t \in Threads :
          (Leaves(t, "init") /\ self[t] = cls_instance /\ LivePath = ctx[t].arg)
              => /\ pc'[t] # "init_load"
                 /\ cls_instance' = cls_instance
                 /\ heap'[cls_instance] = heap[cls_instance]]_vars

\* The model of the run's identifier was live when the run began.
WarmStart == run.startLive = run.paths[1]

\* C5 as stated: constructing with path p while a model loaded from p is
\* live loads nothing and leaves the live model and its path unchanged, and
\* a run given four equal identifiers calls the engine's loader exactly once.
C5_RunLoadsExactlyOnce ==
    /\ NoReloadOfLivePath
    /\ [](\A t \in Threads :
            (LoadStageDone(t) /\ EqualPaths) => run.loads = 1)

\* C5, amended: constructing with path p while a model loaded from p is
\* live loads nothing and leaves the live model and its path unchanged; a
\* run given four equal identifiers calls the loader not at all when the
\* model of that identifier was live when the run began, and otherwise at
\* least once, with at most one load that succeeds: exactly one call when no
\* call fails, and exactly one successful load when every load_model
\* returned a handle.
C5_NoReloadOfLivePath ==
    /\ NoReloadOfLivePath
    /\ [](\A t \in Threads :
            (LoadStageDone(t) /\ EqualPaths)
                => /\ run.loaded <= run.loads
                   /\ WarmStart => run.loads = 0
                   /\ ~WarmStart
                        => /\ run.loads >= 1
                           /\ run.loaded <= 1
                           /\ run.loads = run.loaded => run.loads = 1
                           /\ AllLoaded(models[t]) => run.loaded = 1)

\* C5 witness: a load stage over four equal identifiers, begun without a
\* live model of that identifier, ended with four handles after one call of
\* the loader, which succeeded.
C5_Witness ==
    \E t \in Threads :
        /\ LoadStageDone(t) /\ EqualPaths
        /\ AllLoaded(models[t])
        /\ ~WarmStart
        /\ run.loads = 1
        /\ run.loaded = 1

\* C6: cleanup() never raises, and a cleanup() that directly follows a
\* cleanup() changes nothing in the manager.
C6_CleanupIdempotent ==
    [][\A t \in Threads :
        Leaves(t, "cleanup")
            => /\ cleaned'
               /\ cleaned => /\ cls_instance' = cls_instance
                             /\ cls_model' = cls_model
                             /\ cls_model_path' = cls_model_path
                             /\ heap' = heap]_vars

\* C6 witness: a second cleanup() is being made right after a first one, in
\* a manager whose last load had failed.
C6_Witness ==
    \E t \in Threads :
        /\ pc[t] = "cleanup" /\ ctx[t].top = "cleanup"
        /\ cleaned
        /\ cls_instance = NoObj
        /\ \E o \in ObjIds : heap[o].model = None

\* C7: after cleanup() returns, the model that was live before the call is
\* held by no manager object.
C7_CleanupDropsModel ==
    [][\A t \in Threads :
        (Leaves(t, "cleanup") /\ cls_instance # NoObj /\ IsModel(Attr_model(cls_instance)))
            => ~IsModel(heap'[cls_instance].model)]_vars

\* C8: the construction that follows a cleanup() performs an engine load,
\* whatever path it is given.
C8_ReloadAfterCleanup ==
    [][\A t \in Threads :
        (Leaves(t, "init") /\ cleaned) => pc'[t] = "init_load"]_vars

\* C8 witness: the engine load runs on the object created after a cleanup(),
\* for the path the handle from before the cleanup was loaded from.
C8_Witness ==
    \E t \in Threads :
        /\ pc[t] = "init_load" /\ ctx[t].loads = 1 /\ ctx[t].top = "construct"
        /\ \E i \in DOMAIN models[t] :
              /\ models[t][i] # NoObj
              /\ models[t][i] # self[t]
              /\ heap[models[t][i]].model = ctx[t].arg

\* Thread t is inside a load_model call.
InLoadModel(t) == ctx[t].top \in {"load_model", "run"} /\ ctx[t].try >= 1

\* C9: one load_model call makes at most two engine load attempts; the second
\* follows a failed first attempt and exactly one cleanup(); when it fails
\* too, load_model returns None.
C9_AtMostTwoAttempts ==
    /\ [](\A t \in Threads :
            InLoadModel(t)
                => /\ ctx[t].try <= 2
                   /\ ctx[t].loads <= 2
                   /\ ctx[t].loads <= ctx[t].try
                   /\ ctx[t].try = 1 => ctx[t].cleanups = 0
                   /\ ctx[t].try = 2 => (ctx[t].cleanups = 1 /\ ctx[t].failed = 1))
    /\ [][\A t \in Threads :
            (InLoadModel(t) /\ ctx[t].try = 2 /\ Leaves(t, "init_load")
             /\ heap'[self[t]].model # ctx[t].arg)
                => /\ pc'[t] \in {"idle", "run_load"}
                   /\ models'[t] # <<>>
                   /\ models'[t][Len(models'[t])] = NoObj]_vars

\* C9 witness: a load_model of the load stage returned None after two engine
\* load attempts and one cleanup().
C9_Witness ==
    \E t \in Threads :
        /\ pc[t] = "run_load"
        /\ ctx[t].try = 2 /\ ctx[t].loads = 2 /\ ctx[t].cleanups = 1
        /\ models[t] # <<>>
        /\ models[t][Len(models[t])] = NoObj

\* The step in which the load_model call of thread t returns None.
LoadModelReturnsNone(t) ==
    /\ InLoadModel(t)
    /\ pc[t] \in {"new_ret", "init_load"}
    /\ pc'[t] \in {"idle", "run_load"}
    /\ models'[t] # <<>>
    /\ models'[t][Len(models'[t])] = NoObj

\* C10: when load_model returns None, the manager is as if nothing was ever
\* loaded: no singleton instance, no model, no recorded path.
C10_NothingLeftAfterFailure ==
    [][\A t \in Threads :
        LoadModelReturnsNone(t)
            => /\ cls_instance' = NoObj
               /\ cls_model' = None
               /\ cls_model_path' = None
               /\ \A o \in ObjIds : heap'[o] = Absent]_vars

\* Manager objects some caller, running method or the class still refers to.
ManagerObjects == Roots

\* The object holds a loaded model, as generate's check reads it.
Loaded(o) == Attr_model(o) # None

\* C11: every manager reference held at any time, before or after cleanup()
\* calls, denotes one and the same object, and all of them agree on whether
\* a model is loaded.
C11_OneInstanceForLife ==
    \A o \in ManagerObjects, q \in ManagerObjects :
        /\ o = q
        /\ Loaded(o) <=> Loaded(q)

\* C12: a generate call that has passed its loaded check finds the model
\* present when it takes the lock and runs the engine on it.
C12_NoAbsentModelAfterCheck ==
    [][\A t \in Threads :
        Leaves(t, "gen_lock") => pc'[t] = "gen_engine"]_vars

\* The statements of a run that follow the check of line 43.
AfterQuorum == {"judge_call", "judge_parse", "errors_call", "errors_parse",
                "organs_call", "organs_parse", "soda_call", "soda_parse",
                "summary_prompt"}

\* C13: the phonetic judge is called only when both candidate lists hold 3
\* candidates; with fewer in either list the run ends at the check, without
\* a judge call, a later generation call or a verdict.
C13_JudgeNeedsQuorum ==
    /\ [](\A t \in Threads :
            (InRun(t) /\ pc[t] \in AfterQuorum)
                => /\ Len(run.original_ipas) = 3
                   /\ Len(run.transcribed_ipas) = 3)
    /\ [][\A t \in Threads :
            (/\ Leaves(t, "run_quorum")
             /\ (Len(run.original_ipas) < 3 \/ Len(run.transcribed_ipas) < 3))
                => /\ pc'[t] = "idle"
                   /\ run'.evaluation = PyNone]_vars

\* C13 witness: the check of line 43 is reached with one reference candidate
\* (two of the three generate_ipa calls gave nothing) and three transcribed
\* candidates.
C13_Witness ==
    \E t \in Threads :
        /\ pc[t] = "run_quorum"
        /\ Len(run.original_ipas) = 1
        /\ Len(run.transcribed_ipas) = 3

\* The text holds nothing but whitespace.
BlankText(raw) == \A i \in DOMAIN raw : raw[i] \in Whitespace

\* C14: a transcription that is empty after whitespace normalization ends the
\* run at once: no model is loaded, no generation call is made.
C14_EmptyTranscriptionAborts ==
    [][\A t \in Threads :
        (Leaves(t, "run_text") /\ BlankText(run.raw))
            => /\ pc'[t] = "idle"
               /\ UNCHANGED <<lock, cls_instance, cls_model, cls_model_path, heap>>]_vars

\* C14 witness: a run holds a transcription made of whitespace only.
C14_Witness ==
    \E t \in Threads :
        /\ pc[t] = "run_text"
        /\ Len(run.raw) >= 2
        /\ BlankText(run.raw)

\* The phonetic judge's response does not parse: no marker, or no JSON after
\* the first marker.
JudgeUnparsed(response) ==
    IF HasMarker(response) THEN JsonLoads(SplitSecond(response)) = Raised ELSE TRUE

\* C15: when a judge's response fails to parse, the verdict is the fixed
\* fallback: first reference candidate, first transcribed candidate and
\* confidence 5 for the phonetic judge; index 0, confidence 5 and the first
\* analysis as consolidated analysis for the error-pattern judge.
C15_FallbackVerdictIsFirstCandidate ==
    [][\A t \in Threads :
        /\ (Leaves(t, "judge_parse") /\ JudgeUnparsed(run.response))
              => run'.evaluation =
                     Obj(<< <<"best_ipa_original", run.original_ipas[1]>>,
                            <<"best_ipa_transcript", run.transcribed_ipas[1]>>,
                            <<"confidence", Num(5)>> >>)
        /\ (Leaves(t, "soda_parse") /\ JsonLoads(run.response) = Raised)
              => run'.soda_evaluation =
                     Obj(<< <<"selected_analysis", Num(0)>>,
                            <<"confidence", Num(5)>>,
                            <<"consolidated_analysis", run.soda_analyses[1]>> >>)]_vars

\* C15 witness: evaluate_transcriptions returned the fallback for a response
\* that did not parse, on lists whose first candidates differ from later ones.
C15_Witness ==
    \E t \in Threads :
        /\ pc[t] = "idle"
        /\ run.evaluation # PyNone
        /\ JudgeUnparsed(run.response)
        /\ run.original_ipas[1] # run.original_ipas[3]
        /\ run.transcribed_ipas[1] # run.transcribed_ipas[2]
        /\ Get(run.evaluation, "best_ipa_original") = run.original_ipas[1]
        /\ Get(run.evaluation, "best_ipa_transcript") = run.transcribed_ipas[1]

\* The value is a verdict object of the error-pattern judge.
WellFormedSodaVerdict(x) ==
    /\ HasKey(x, "selected_analysis")
    /\ HasKey(x, "confidence")
    /\ HasKey(x, "consolidated_analysis")

\* C16: when the error-pattern judge's response is a well-formed verdict
\* object, evaluate_soda_analyses returns that verdict.
C16_WellFormedVerdictIsReturned ==
    [][\A t \in Threads :
        (Leaves(t, "soda_parse") /\ WellFormedSodaVerdict(JsonLoads(run.response)))
            => run'.soda_evaluation = JsonLoads(run.response)]_vars

\* The statements at which a run reads a generated text.
ParseSteps == {"ipa_parse", "judge_parse", "errors_parse", "organs_parse",
               "soda_parse"}

\* C17: whatever text the engine returned, the stage that reads it resolves
\* to a value and the run goes on to its next statement; it does not end
\* there.
C17_NoTextEndsRun ==
    [][\A t \in Threads :
        (InRun(t) /\ pc[t] \in ParseSteps /\ pc'[t] # pc[t])
            => pc'[t] # "idle"]_vars

\* C18: when the summary response fails to parse, the returned summary has
\* total_errors equal to the number of errors of the analysis and, per
\* category, error_breakdown equal to the number of errors of that category.
C18_SummaryCountsErrors ==
    [][\A t \in Threads :
        (/\ Leaves(t, "summary_parse")
         /\ JsonLoads(run.response) = Raised
         /\ run'.soda_summary # PyNone)
            => LET errors == Val(Get(run.soda_analysis, "errors"))
                   summary == run'.soda_summary
               IN /\ Get(summary, "total_errors") = Num(Len(errors))
                  /\ \A c \in Categories :
                        Get(Get(summary, "error_breakdown"), BreakdownKey(c))
                            = Num(Len(SelectSeq(errors,
                                                LAMBDA e : Get(e, "type") = Str(c))))]_vars

\* C18 witness: the summary of an analysis with 2 Substitution and 1 Omission
\* errors, built after a response that did not parse, counts 3 errors: 2, 1,
\* 0 and 0 per category.
C18_Witness ==
    \E t \in Threads :
        /\ pc[t] = "idle"
        /\ run.soda_summary # PyNone
        /\ JsonLoads(run.response) = Raised
        /\ Get(run.soda_analysis, "errors") = TwoSubstOneOmission
        /\ Get(run.soda_summary, "total_errors") = Num(3)
        /\ Get(run.soda_summary, "error_breakdown") =
               Obj(<< <<"substitution", Num(2)>>, <<"omission", Num(1)>>,
                      <<"distortion", Num(0)>>, <<"addition", Num(0)>> >>)

\* C19: without a profile generate_soda_summary still issues its generation
\* call.
C19_NoProfileStillGenerates ==
    [][\A t \in Threads :
        (Leaves(t, "summary_prompt") /\ ~Truthy(run.profile))
            => pc'[t] = "summary_call"]_vars

\* The statements at which a run calls the engine.
CallSteps == {"ipa_call", "judge_call", "errors_call", "organs_call",
              "soda_call", "summary_call"}

\* C21: a run ends in one of the declared outcomes only: with a complete
\* result, or at the transcription, at the check of the loaded models, at
\* the check of the candidates, or at a generation call on a handle whose
\* model is not loaded.
C21_RunEndsInDeclaredOutcome ==
    [][\A t \in Threads :
        (InRun(t) /\ pc[t] # "idle" /\ pc'[t] = "idle")
            => \/ pc[t] \in {"run_text", "run_load", "run_quorum"}
               \/ pc[t] \in CallSteps /\ GenerateRaises(self[t])
               \/ run'.soda_summary # PyNone]_vars

\* The generation stage the statement p of a run belongs to, k being the
\* number of the generate_ipa call: 1 reference transcriptions, 2 transcribed
\* transcriptions, 3 phonetic judge, 4 error analyses, 5 error-pattern judge,
\* 6 summary; 0 before the first of them.
Stage(p, k) ==
    CASE p \in {"ipa_call", "ipa_parse"} -> IF k <= NIpa THEN 1 ELSE 2
      [] p = "run_quorum" -> 2
      [] p \in {"judge_call", "judge_parse"} -> 3
      [] p \in {"errors_call", "errors_parse", "organs_call", "organs_parse"} -> 4
      [] p \in {"soda_call", "soda_parse"} -> 5
      [] p \in {"summary_prompt", "summary_call", "summary_parse"} -> 6
      [] OTHER -> 0

\* C22: a run goes through the generation stages in their order, one at a
\* time and never back; it enters a stage only after the answer to the last
\* call of the stage before was read and all attempts of that stage were
\* made; the error analyses are given the two transcriptions the phonetic
\* verdict names and the summary the consolidated analysis of the
\* error-pattern verdict.
C22_StagesInOrder ==
    /\ [][\A t \in Threads :
            (InRun(t) /\ InRun(t)')
                => LET now == Stage(pc[t], run.k)
                       next == Stage(pc'[t], run'.k)
                   IN /\ next \in {now, now + 1}
                      /\ (next = now + 1 /\ now > 0) => pc[t] \notin CallSteps]_vars
    /\ [](\A t \in Threads :
            InRun(t) =>
                /\ Stage(pc[t], run.k) >= 3
                      => Len(run.original_ipas) = NIpa
                         /\ Len(run.transcribed_ipas) = NIpa
                /\ Stage(pc[t], run.k) = 4
                      => /\ run.best_original_ipa
                              = Get(run.evaluation, "best_ipa_original")
                         /\ run.best_transcribed_ipa
                              = Get(run.evaluation, "best_ipa_transcript")
                /\ Stage(pc[t], run.k) >= 5 => Len(run.soda_analyses) = NIpa
                /\ Stage(pc[t], run.k) = 6
                      => run.soda_analysis
                            = Get(run.soda_evaluation, "consolidated_analysis"))

\* C22 witness: a run is about to call generate_soda_summary; its error
\* analyses were made on the two different transcriptions the phonetic
\* verdict named.
C22_Witness ==
    \E t \in Threads :
        /\ InRun(t)
        /\ pc[t] = "summary_prompt"
        /\ run.best_original_ipa = PickedIpa
        /\ run.best_transcribed_ipa = OtherIpa
        /\ run.soda_analysis = run.soda_analyses[1]

\* The running function is generate_ipa, called on its own.
InGenerateIpa(t) == ctx[t].top = "generate_ipa"

\* The text holds no slash.
NoSlash(response) == \A i \in DOMAIN response : response[i] # "/"

\* C23: one call of generate_ipa calls the engine at most twice; the second
\* call is made only after a first answer that gave no transcription, on
\* the same model and text; a second answer without a slash ends the call
\* with no candidate; an empty text ends it with no candidate and no call
\* of the engine.
C23_AtMostTwoIpaCalls ==
    /\ [](\A t \in Threads : InGenerateIpa(t) => run.calls <= 2)
    /\ [][\A t \in Threads :
            InGenerateIpa(t) =>
                /\ (pc[t] = "ipa_parse" /\ pc'[t] = "ipa_call")
                      => /\ run.calls = 1
                         /\ ParseIpa(run.response) = PyNone
                         /\ self'[t] = self[t]
                         /\ run'.text = run.text
                /\ (Leaves(t, "ipa_parse") /\ run.calls = 2
                        /\ NoSlash(run.response))
                      => /\ pc'[t] = "idle"
                         /\ run'.ipa = PyNone
                         /\ run'.calls = 2
                /\ (Leaves(t, "ipa_call") /\ run.text = "")
                      => /\ pc'[t] = "idle"
                         /\ run'.ipa = PyNone
                         /\ run'.calls = 0]_vars

\* C23 witness: generate_ipa returned None for the text "a" after two
\* calls of the engine, the second answer holding no slash.
C23_Witness ==
    \E t \in Threads :
        /\ pc[t] = "idle"
        /\ run.text = "a"
        /\ run.calls = 2
        /\ run.ipa = PyNone
        /\ NoSlash(run.response)

\* The "errors" of the answer to the errors prompt as lines 203-206 read
\* it: the parsed value, the empty list for an answer that does not parse.
ParsedErrors(response) ==
    IF JsonLoads(response) = Raised THEN List(<<>>)
    ELSE Get(JsonLoads(response), "errors")

\* C24: in an error analysis the organs call is made exactly when the
\* errors read from the first answer are not empty; with no errors the
\* analysis is returned after that one call (the engine is entered once
\* during the errors call, when the lock is taken), with an empty organ list.
C24_OrgansCallIffErrors ==
    [][\A t \in Threads :
        InRun(t) =>
            /\ (pc[t] = "errors_call" /\ pc'[t] # "idle")
                  => run'.calls = run.calls + (IF ctx[t].gen = 1 THEN 1 ELSE 0)
            /\ (Leaves(t, "errors_parse") /\ pc'[t] # "idle")
                  => LET errors == ParsedErrors(run.response)
                     IN /\ run'.calls = run.calls
                        /\ pc'[t] = "organs_call" <=> Len(Val(errors)) > 0
                        /\ Len(Val(errors)) = 0
                              => run'.soda_analyses
                                    = Append(run.soda_analyses,
                                             Analysis(List(<<>>), List(<<>>)))]_vars

\* C24 witness: the first analysis of a run found no error and was returned
\* after one call; the second found errors and asked for the organs.
C24_Witness ==
    \E t \in Threads :
        /\ InRun(t)
        /\ pc[t] = "organs_parse"
        /\ run.k = 2
        /\ run.soda_analyses = <<Analysis(List(<<>>), List(<<>>))>>
        /\ run.errors = TwoSubstOneOmission

\* The value is a list.
IsList(x) == Kind(x) = "list"

\* C25: every error analysis that was started is appended to the analyses
\* of the run, whatever the two answers were, and the error-pattern judge
\* is called on 3 analyses that each hold a list of errors and a list of
\* organs.
C25_ThreeAnalysesOfLists ==
    /\ [][\A t \in Threads :
            InRun(t) =>
                /\ Leaves(t, "errors_parse")
                      => \/ pc'[t] = "organs_call"
                         \/ Len(run'.soda_analyses) = Len(run.soda_analyses) + 1
                /\ Leaves(t, "organs_parse")
                      => Len(run'.soda_analyses) = Len(run.soda_analyses) + 1]_vars
    /\ [](\A t \in Threads :
            (InRun(t) /\ pc[t] \in {"soda_call", "soda_parse"})
                => /\ Len(run.soda_analyses) = NIpa
                   /\ \A i \in DOMAIN run.soda_analyses :
                         /\ IsList(Get(run.soda_analyses[i], "errors"))
                         /\ IsList(Get(run.soda_analyses[i],
                                       "affected_speech_organs")))

\* 2 calls for each of the 6 generate_ipa calls, 1 for the phonetic judge,
\* 2 for each of the 3 analyses, 1 for the error-pattern judge and 1 for
\* the summary.
MaxCalls == IpaAttempts * (2 * NIpa) + 1 + 2 * NIpa + 1 + 1

\* C26: a run calls the engine at most 21 times, and every run ends.
C26_RunTerminatesWithinBound ==
    /\ [](\A t \in Threads : InRun(t) => run.calls <= MaxCalls)
    /\ \A t \in Threads : InRun(t) ~> ~InRun(t)

\* C26 witness: a run made both attempts of all 6 generate_ipa calls and
\* both calls of all 3 analyses, 20 calls with the two judge calls, and has
\* entered generate_soda_summary.
C26_Witness ==
    \E t \in Threads :
        /\ InRun(t)
        /\ pc[t] = "summary_prompt"
        /\ run.calls = MaxCalls - 1

\* The positions of the markers in a text.
Markers(s) == {i \in DOMAIN s : s[i] = Marker}

\* C27: evaluate_transcriptions returns the object that stands between the
\* first two markers of the answer, whatever stands before and after them;
\* for an answer with one marker that ends before the closing brace of its
\* object it returns the object closed by the appended brace; for an answer
\* without marker it returns the default.
C27_JudgeExtraction ==
    [][\A t \in Threads :
        (Leaves(t, "judge_parse") /\ ~InRun(t)) =>
            LET s == run.response
                M == Markers(s)
            IN /\ Cardinality(M) >= 2
                    => LET first == Min(M)
                           second == Min(M \ {first})
                           payload == SubSeq(s, first + 1, second - 1)
                       IN JsonLoads(payload) # Raised
                              => run'.evaluation = JsonLoads(payload)
               /\ Cardinality(M) = 1
                    => LET payload == SubSeq(s, Min(M) + 1, Len(s))
                       IN JsonLoads(payload) # Raised
                              => run'.evaluation = JsonLoads(payload)
               /\ M = {}
                    => run'.evaluation
                          = FallbackVerdict(run.original_ipas,
                                            run.transcribed_ipas)]_vars

\* C27 witness: evaluate_transcriptions returned the object of an answer
\* that has words before the first and after the second marker.
C27_Witness ==
    \E t \in Threads :
        /\ pc[t] = "idle"
        /\ run.evaluation # PyNone
        /\ Cardinality(Markers(run.response)) = 2
        /\ run.response[1] = Word
        /\ run.response[Len(run.response) - 1] = Word
        /\ run.evaluation = Obj(<< <<"best_ipa_original", PickedIpa>>,
                                   <<"best_ipa_transcript", OtherIpa>> >>)

\* C27 witness of the cut-off answer: the object was returned although the
\* answer ended before its closing brace and before the second marker.
C27_WitnessTruncated ==
    \E t \in Threads :
        /\ pc[t] = "idle"
        /\ run.evaluation # PyNone
        /\ Cardinality(Markers(run.response)) = 1
        /\ run.evaluation = Obj(<< <<"best_ipa_original", PickedIpa>>,
                                   <<"best_ipa_transcript", OtherIpa>> >>)

\* The engine's answer, before '}' was appended to it.
Answer(response) == SubSeq(response, 1, Len(response) - 1)

\* C28: when the answer of a judge has no marker and is as a whole one
\* well-formed object (as the engine gave it, or with the appended brace),
\* the judge function returns that object.
C28_BarePayloadIsParsed ==
    [][\A t \in Threads :
        /\ (Leaves(t, "judge_parse") /\ Markers(run.response) = {})
              => /\ JsonLoads(Answer(run.response)) # Raised
                      => run'.evaluation = JsonLoads(Answer(run.response))
                 /\ JsonLoads(run.response) # Raised
                      => run'.evaluation = JsonLoads(run.response)
        /\ (Leaves(t, "soda_parse") /\ Markers(run.response) = {})
              => /\ JsonLoads(Answer(run.response)) # Raised
                      => run'.soda_evaluation = JsonLoads(Answer(run.response))
                 /\ JsonLoads(run.response) # Raised
                      => run'.soda_evaluation = JsonLoads(run.response)]_vars

\* The value is an integer between lo and hi.
IntIn(x, lo, hi) == Kind(x) = "num" /\ Val(x) \in lo..hi

\* C29: a verdict a judge function returned is within the verdict domain:
\* its confidence is an integer in 1..10; the phonetic verdict names one of
\* the reference candidates and one of the transcribed candidates it was
\* given, the error-pattern verdict an index in 0..2.
C29_VerdictInDomain ==
    /\ run.evaluation # PyNone
          => /\ HasKey(run.evaluation, "confidence")
             /\ IntIn(Get(run.evaluation, "confidence"), 1, 10)
             /\ HasKey(run.evaluation, "best_ipa_original")
             /\ Get(run.evaluation, "best_ipa_original")
                    \in Range(run.original_ipas)
             /\ HasKey(run.evaluation, "best_ipa_transcript")
             /\ Get(run.evaluation, "best_ipa_transcript")
                    \in Range(run.transcribed_ipas)
    /\ run.soda_evaluation # PyNone
          => /\ HasKey(run.soda_evaluation, "confidence")
             /\ IntIn(Get(run.soda_evaluation, "confidence"), 1, 10)
             /\ HasKey(run.soda_evaluation, "selected_analysis")
             /\ IntIn(Get(run.soda_evaluation, "selected_analysis"), 0, NIpa - 1)

\* The non-empty pieces of a text.
Infixes(s) == {SubSeq(s, i, j) : i \in DOMAIN s, j \in DOMAIN s} \ {<<>>}

\* C30: a candidate generate_ipa returns is a non-empty piece of the answer
\* put between two slashes.
C30_CandidateIsSlashBounded ==
    [][\A t \in Threads :
        (InGenerateIpa(t) /\ Leaves(t, "ipa_parse") /\ run'.ipa # PyNone)
            => \E body \in Infixes(run.response) :
                  run'.ipa = Str("/" \o Join(body) \o "/")]_vars


\* C31: once the load stage of a run has succeeded, every generation call
\* of the run is made on a handle whose model is loaded: no call of the run
\* raises the not-loaded error, also when a load of the run succeeded only
\* on its retry after the cleanup.
C31_CallsFindLoadedModel ==
    \A t \in Threads :
        (InRun(t) /\ pc[t] \in CallSteps) => ~GenerateRaises(self[t])

\* C32: when the four identifiers of a run are not all equal, a generation
\* call is served by the model loaded from the identifier of the list entry
\* it is given.  The load stage hands the first call models[0], which holds
\* the model of identifier 1; the later calls are given the other entries
\* (no step of the generation stages loads or cleans up), and entry i holds
\* the model of identifier i, the judge's entry that of identifier 4.
C32_CallServedByItsIdentifier ==
    [][\A t \in Threads :
          (InRun(t) /\ pc[t] = "run_load" /\ pc'[t] = "ipa_call" /\ ~EqualPaths)
            => /\ Attr_model(self[t])' = run.paths[IpaModel(1)]
               /\ \A i \in 1..NModelPaths :
                     Attr_model(models[t][i])' = run.paths[i]]_vars
====
